---- MODULE Spec2Model ----
(***************************************************************************)
(* State-machine model of start-dev-server.py: the port selector           *)
(* (find_available_port), the static file responder                        *)
(* (CustomHTTPRequestHandler), the browser launcher (open_browser) and the *)
(* lifecycle controller (__main__, check_files, start_server).             *)
(***************************************************************************)
EXTENDS Integers, Sequences, FiniteSets, TLC

(***************************************************************************)
(* Program constants                                                       *)
(***************************************************************************)
DEFAULT_PORT == 8080          \* PORT = 8080, start_port=8080
DEFAULT_MAX_ATTEMPTS == 10    \* max_attempts=10
HOST == "localhost"
MaxPortNumber == 65535        \* bind(): port must be 0-65535
MGMT == "FMH-Management-Panel.html"
DIAG == "FMH-Connection-Diagnostic.html"
files_to_check == <<MGMT, DIAG>>
FileNames == {files_to_check[i] : i \in 1..Len(files_to_check)}

(***************************************************************************)
(* Bounds of the model                                                     *)
(***************************************************************************)
MaxOccupied == 2       \* occupied ports in the probe range (or all of them)
MaxFileChanges == 1    \* file creations/deletions by the environment
PortWindow == 4        \* ports below MaxPortNumber the selector is tried on
MaxAttempts == 3       \* attempt budgets the selector is tried with

ScriptDir == "script_dir"     \* os.path.dirname(os.path.abspath(__file__))
OtherDir == "other_dir"       \* any other directory the program is invoked from
Dirs == {ScriptDir, OtherDir}

VARIABLES
    pc,             \* position of the main thread
    argv_help,      \* sys.argv[1] in ['--help', '-h']
    cwd,            \* the process's working directory
    files,          \* files[d]: which of the two HTML files exist in directory d
    occupied,       \* ports on which a bind fails with OSError
    PORT,           \* the module-level PORT
    available_port, \* start_server's local: <<>> is None, <<p>> is port p
    missing_files,  \* check_files's local list, as a set
    warned,         \* check_files printed the missing-file warning
    socketOpen,     \* httpd's listening socket is open
    bound,          \* <<>> or <<[host, port]>>: address httpd is bound to
    server_url,     \* <<>> or <<[host, port]>>: the f-string of line 65
    launcher,       \* browser_thread: "none", "sleeping", "done", "killed"
    opened,         \* sequence of URLs passed to webbrowser.open
    exitStatus,     \* -1 while running, else the process's exit status
    exitVia,        \* how the process ended
    interruptedAt,  \* "" or the pc at which KeyboardInterrupt was raised
    filesAtStart,   \* history: files[cwd] when browser_thread.start() ran
    filesAtFire,    \* history: files[cwd] when open_browser's checks ran
    fileChanges,    \* number of environment file changes so far
    fp_pc, fp_start, fp_attempts, fp_occupied, fp_result,
    http_pc, http_request, http_wire

lifeVars == <<pc, argv_help, cwd, files, occupied, PORT, available_port,
              missing_files, warned, socketOpen, bound, server_url, launcher,
              opened, exitStatus, exitVia, interruptedAt, filesAtStart,
              filesAtFire, fileChanges>>
fpVars == <<fp_pc, fp_start, fp_attempts, fp_occupied, fp_result>>
httpVars == <<http_pc, http_request, http_wire>>
vars == <<lifeVars, fpVars, httpVars>>

(***************************************************************************)
(* Port Selector                                                           *)
(***************************************************************************)
\* socketserver.TCPServer(("", port), None): the outcome of the bind
TCPServerBind(port, occ) ==
    IF port < 0 \/ port > MaxPortNumber THEN "OverflowError"
    ELSE IF port \in occ THEN "OSError"
    ELSE "ok"

RECURSIVE ProbeFrom(_, _, _)
\* the for loop of find_available_port, from candidate port up to stop - 1
ProbeFrom(port, stop, occ) ==
    IF port >= stop THEN [ret |-> <<>>, exc |-> "none"]
    ELSE LET r == TCPServerBind(port, occ) IN
         IF r = "ok" THEN [ret |-> <<port>>, exc |-> "none"]
         ELSE IF r = "OSError" THEN ProbeFrom(port + 1, stop, occ)
         ELSE [ret |-> <<>>, exc |-> r]

\* mutant: the loop stops one port short of start_port + max_attempts
find_available_port_ShortRange(start_port, max_attempts, occ) ==
    ProbeFrom(start_port, start_port + max_attempts - 1, occ)

find_available_port(start_port, max_attempts, occ) ==
    ProbeFrom(start_port, start_port + max_attempts, occ)

ProbeRange == DEFAULT_PORT .. (DEFAULT_PORT + DEFAULT_MAX_ATTEMPTS - 1)

(***************************************************************************)
(* Browser Launcher                                                        *)
(***************************************************************************)
\* mutant: the diagnostic page is tested before the management panel
open_browser_page_DiagFirst(present) ==
    IF DIAG \in present THEN "/" \o DIAG
    ELSE IF MGMT \in present THEN "/" \o MGMT
    ELSE ""

\* the if/elif/else of open_browser: the path appended to server_url
open_browser_page(present) ==
    IF MGMT \in present THEN "/" \o MGMT
    ELSE IF DIAG \in present THEN "/" \o DIAG
    ELSE ""

(***************************************************************************)
(* Lifecycle Controller                                                    *)
(***************************************************************************)
Running == exitStatus = -1
UncaughtInterruptStatus == {1, 130}  \* traceback exit, or death by SIGINT

InitLife ==
    /\ pc = "main"
    /\ argv_help \in BOOLEAN
    /\ cwd \in Dirs
    /\ files \in [Dirs -> SUBSET FileNames]
    /\ (cwd = ScriptDir => files[OtherDir] = {})
    /\ occupied \in {S \in SUBSET ProbeRange :
                        Cardinality(S) <= MaxOccupied \/ S = ProbeRange}
    /\ PORT = DEFAULT_PORT
    /\ available_port = <<>>
    /\ missing_files = {}
    /\ warned = FALSE
    /\ socketOpen = FALSE
    /\ bound = <<>>
    /\ server_url = <<>>
    /\ launcher = "none"
    /\ opened = <<>>
    /\ exitStatus = -1
    /\ exitVia = "none"
    /\ interruptedAt = ""
    /\ filesAtStart = {}
    /\ filesAtFire = {}
    /\ fileChanges = 0

IdleLife ==
    /\ pc = "idle"
    /\ argv_help = FALSE
    /\ cwd = ScriptDir
    /\ files = [d \in Dirs |-> {}]
    /\ occupied = {}
    /\ PORT = DEFAULT_PORT
    /\ available_port = <<>>
    /\ missing_files = {}
    /\ warned = FALSE
    /\ socketOpen = FALSE
    /\ bound = <<>>
    /\ server_url = <<>>
    /\ launcher = "none"
    /\ opened = <<>>
    /\ exitStatus = -1
    /\ exitVia = "none"
    /\ interruptedAt = ""
    /\ filesAtStart = {}
    /\ filesAtFire = {}
    /\ fileChanges = 0

\* sys.exit or an uncaught exception ends the process: daemon threads die
\* with it; socketOpen keeps telling whether the program closed its socket
ProcessExit(status, via) ==
    /\ pc' = "exited"
    /\ exitStatus' = status
    /\ exitVia' = via
    /\ socketOpen' = socketOpen
    /\ launcher' = IF launcher = "sleeping" THEN "killed" ELSE launcher

\* __main__: the --help test (the version test cannot fail: the f-strings of
\* the file do not compile before Python 3.6)
Main ==
    /\ pc = "main"
    /\ IF argv_help
       THEN ProcessExit(0, "help")
       ELSE /\ pc' = "check_files"
            /\ UNCHANGED <<exitStatus, exitVia, socketOpen, launcher>>
    /\ UNCHANGED <<argv_help, cwd, files, occupied, PORT, available_port,
                   missing_files, warned, bound, server_url, opened,
                   interruptedAt, filesAtStart, filesAtFire, fileChanges>>

\* the directory check_files looks in: os.path.exists of a relative name
check_files_dir == cwd

\* check_files() and the `if not check_files()` of __main__
CheckFiles ==
    /\ pc = "check_files"
    /\ LET missing == {f \in FileNames : f \notin files[check_files_dir]} IN
        /\ missing_files' = missing
        /\ warned' = (missing # {})
        /\ pc' = IF missing # {} THEN "input" ELSE "find_port"
    /\ UNCHANGED <<argv_help, cwd, files, occupied, PORT, available_port,
                   socketOpen, bound, server_url, launcher, opened,
                   exitStatus, exitVia, interruptedAt, filesAtStart,
                   filesAtFire, fileChanges>>

\* input(...) returns: the user pressed Enter
InputEnter ==
    /\ pc = "input"
    /\ pc' = "find_port"
    /\ UNCHANGED <<argv_help, cwd, files, occupied, PORT, available_port,
                   missing_files, warned, socketOpen, bound, server_url,
                   launcher, opened, exitStatus, exitVia, interruptedAt,
                   filesAtStart, filesAtFire, fileChanges>>

\* input(...) raises EOFError (standard input closed): nothing catches it
InputEOF ==
    /\ pc = "input"
    /\ ProcessExit(1, "uncaught")
    /\ UNCHANGED <<argv_help, cwd, files, occupied, PORT, available_port,
                   missing_files, warned, bound, server_url, opened,
                   interruptedAt, filesAtStart, filesAtFire, fileChanges>>

\* mutant: when no port is found the controller gives up with status 1
FindPort_NoFallback ==
    /\ pc = "find_port"
    /\ LET r == find_available_port(PORT, DEFAULT_MAX_ATTEMPTS, occupied) IN
        /\ available_port' = r.ret
        /\ PORT' = IF r.ret # <<>> /\ r.ret[1] # 0 THEN r.ret[1] ELSE PORT
        /\ IF r.ret = <<>>
           THEN ProcessExit(1, "uncaught")
           ELSE /\ pc' = "chdir"
                /\ UNCHANGED <<socketOpen, launcher, exitStatus, exitVia>>
    /\ UNCHANGED <<argv_help, cwd, files, occupied, missing_files, warned,
                   bound, server_url, opened, interruptedAt, filesAtStart,
                   filesAtFire, fileChanges>>

\* start_server lines 52-57
FindPort ==
    /\ pc = "find_port"
    /\ LET r == find_available_port(PORT, DEFAULT_MAX_ATTEMPTS, occupied) IN
        /\ available_port' = r.ret
        /\ PORT' = IF r.ret # <<>> /\ r.ret[1] # 0 THEN r.ret[1] ELSE PORT
    /\ pc' = "chdir"
    /\ UNCHANGED <<argv_help, cwd, files, occupied, missing_files, warned,
                   socketOpen, bound, server_url, launcher, opened,
                   exitStatus, exitVia, interruptedAt, filesAtStart,
                   filesAtFire, fileChanges>>

\* start_server line 60
Chdir ==
    /\ pc = "chdir"
    /\ cwd' = ScriptDir
    /\ pc' = "bind"
    /\ UNCHANGED <<argv_help, files, occupied, PORT, available_port,
                   missing_files, warned, socketOpen, bound, server_url,
                   launcher, opened, exitStatus, exitVia, interruptedAt,
                   filesAtStart, filesAtFire, fileChanges>>

\* start_server lines 64-65: the bind succeeds
BindOk ==
    /\ pc = "bind"
    /\ TCPServerBind(PORT, occupied) = "ok"
    /\ socketOpen' = TRUE
    /\ bound' = <<[host |-> HOST, port |-> PORT]>>
    /\ server_url' = <<[host |-> HOST, port |-> PORT]>>
    /\ pc' = "start_thread"
    /\ UNCHANGED <<argv_help, cwd, files, occupied, PORT, available_port,
                   missing_files, warned, launcher, opened, exitStatus,
                   exitVia, interruptedAt, filesAtStart, filesAtFire,
                   fileChanges>>

\* start_server line 64: the bind raises, `except Exception` catches it
BindFails ==
    /\ pc = "bind"
    /\ TCPServerBind(PORT, occupied) # "ok"
    /\ pc' = "except_Exception"
    /\ UNCHANGED <<argv_help, cwd, files, occupied, PORT, available_port,
                   missing_files, warned, socketOpen, bound, server_url,
                   launcher, opened, exitStatus, exitVia, interruptedAt,
                   filesAtStart, filesAtFire, fileChanges>>

\* start_server lines 97-99
StartThread ==
    /\ pc = "start_thread"
    /\ launcher' = "sleeping"
    /\ filesAtStart' = files[cwd]
    /\ pc' = "serve_forever"
    /\ UNCHANGED <<argv_help, cwd, files, occupied, PORT, available_port,
                   missing_files, warned, socketOpen, bound, server_url,
                   opened, exitStatus, exitVia, interruptedAt, filesAtFire,
                   fileChanges>>

\* the body of the with block, entered once the bind succeeded
Serving == {"start_thread", "serve_forever"}

\* an exception of class Exception is raised in the with body (by
\* browser_thread.start() or out of serve_forever): the with block closes the
\* socket, `except Exception` catches it
ServeRaises ==
    /\ pc \in Serving
    /\ socketOpen' = FALSE
    /\ pc' = "except_Exception"
    /\ UNCHANGED <<argv_help, cwd, files, occupied, PORT, available_port,
                   missing_files, warned, bound, server_url, launcher,
                   opened, exitStatus, exitVia, interruptedAt, filesAtStart,
                   filesAtFire, fileChanges>>

InTry == {"bind", "start_thread", "serve_forever"}
OutsideTry == {"check_files", "input", "find_port", "chdir"}

\* KeyboardInterrupt raised in the main thread outside the try of
\* start_server: nothing catches it
InterruptUncaught ==
    /\ pc \in OutsideTry
    /\ interruptedAt' = pc
    /\ \E st \in UncaughtInterruptStatus : ProcessExit(st, "uncaught")
    /\ UNCHANGED <<argv_help, cwd, files, occupied, PORT, available_port,
                   missing_files, warned, bound, server_url, opened,
                   filesAtStart, filesAtFire, fileChanges>>

\* KeyboardInterrupt raised inside the try: the with block (if entered)
\* closes the socket, `except KeyboardInterrupt` catches it
InterruptCaught ==
    /\ pc \in InTry
    /\ interruptedAt' = pc
    /\ socketOpen' = FALSE
    /\ pc' = "except_KeyboardInterrupt"
    /\ UNCHANGED <<argv_help, cwd, files, occupied, PORT, available_port,
                   missing_files, warned, bound, server_url, launcher,
                   opened, exitStatus, exitVia, filesAtStart, filesAtFire,
                   fileChanges>>

\* mutant: the interrupt handler exits with status 1
ExceptKeyboardInterrupt_Exit1 ==
    /\ pc = "except_KeyboardInterrupt"
    /\ ProcessExit(1, "except_KeyboardInterrupt")
    /\ UNCHANGED <<argv_help, cwd, files, occupied, PORT, available_port,
                   missing_files, warned, bound, server_url, opened,
                   interruptedAt, filesAtStart, filesAtFire, fileChanges>>

\* start_server lines 105-110
ExceptKeyboardInterrupt ==
    /\ pc = "except_KeyboardInterrupt"
    /\ ProcessExit(0, "except_KeyboardInterrupt")
    /\ UNCHANGED <<argv_help, cwd, files, occupied, PORT, available_port,
                   missing_files, warned, bound, server_url, opened,
                   interruptedAt, filesAtStart, filesAtFire, fileChanges>>

\* mutant: the error handler exits with status 0
ExceptException_Exit0 ==
    /\ pc = "except_Exception"
    /\ ProcessExit(0, "except_Exception")
    /\ UNCHANGED <<argv_help, cwd, files, occupied, PORT, available_port,
                   missing_files, warned, bound, server_url, opened,
                   interruptedAt, filesAtStart, filesAtFire, fileChanges>>

\* start_server lines 111-113
ExceptException ==
    /\ pc = "except_Exception"
    /\ ProcessExit(1, "except_Exception")
    /\ UNCHANGED <<argv_help, cwd, files, occupied, PORT, available_port,
                   missing_files, warned, bound, server_url, opened,
                   interruptedAt, filesAtStart, filesAtFire, fileChanges>>

\* mutant: the existence flags are read when the thread is started
open_browser_files_Captured == filesAtStart

\* the files open_browser's os.path.exists calls see
open_browser_files == files[cwd]

\* mutant: the thread goes back to sleep after opening and opens again
OpenBrowser_Repeats ==
    /\ launcher = "sleeping"
    /\ Running
    /\ Len(opened) < 2
    /\ filesAtFire' = open_browser_files
    /\ opened' = Append(opened, [base |-> server_url[1],
                                 page |-> open_browser_page(open_browser_files)])
    /\ launcher' = "sleeping"
    /\ UNCHANGED <<pc, argv_help, cwd, files, occupied, PORT, available_port,
                   missing_files, warned, socketOpen, bound, server_url,
                   exitStatus, exitVia, interruptedAt, filesAtStart,
                   fileChanges>>

\* open_browser after its time.sleep(2)
OpenBrowser ==
    /\ launcher = "sleeping"
    /\ Running
    /\ filesAtFire' = open_browser_files
    /\ opened' = Append(opened, [base |-> server_url[1],
                                 page |-> open_browser_page(open_browser_files)])
    /\ launcher' = "done"
    /\ UNCHANGED <<pc, argv_help, cwd, files, occupied, PORT, available_port,
                   missing_files, warned, socketOpen, bound, server_url,
                   exitStatus, exitVia, interruptedAt, filesAtStart,
                   fileChanges>>

\* environment: one of the two HTML files of the served directory is created
\* or deleted while the program runs
FileChange ==
    /\ Running
    /\ pc # "main"
    /\ fileChanges < MaxFileChanges
    /\ \E f \in FileNames :
         files' = [files EXCEPT ![ScriptDir] =
                      IF f \in @ THEN @ \ {f} ELSE @ \cup {f}]
    /\ fileChanges' = fileChanges + 1
    /\ UNCHANGED <<pc, argv_help, cwd, occupied, PORT, available_port,
                   missing_files, warned, socketOpen, bound, server_url,
                   launcher, opened, exitStatus, exitVia, interruptedAt,
                   filesAtStart, filesAtFire>>

\* environment: another process binds the chosen port between the probe and
\* the bind
OtherProcessBinds ==
    /\ pc \in {"chdir", "bind"}
    /\ PORT \notin occupied
    /\ occupied' = occupied \cup {PORT}
    /\ UNCHANGED <<pc, argv_help, cwd, files, PORT, available_port,
                   missing_files, warned, socketOpen, bound, server_url,
                   launcher, opened, exitStatus, exitVia, interruptedAt,
                   filesAtStart, filesAtFire, fileChanges>>

(***************************************************************************)
(* Port Selector, called on its own                                        *)
(***************************************************************************)
WindowPorts == (MaxPortNumber - PortWindow + 1) .. MaxPortNumber

IdleFp ==
    /\ fp_pc = "idle"
    /\ fp_start = 0
    /\ fp_attempts = 1
    /\ fp_occupied = {}
    /\ fp_result = [ret |-> <<>>, exc |-> "none"]

InitFp ==
    /\ fp_pc = "call"
    /\ fp_start \in WindowPorts
    /\ fp_attempts \in 1..MaxAttempts
    /\ fp_occupied \in SUBSET WindowPorts
    /\ fp_result = [ret |-> <<>>, exc |-> "none"]

\* find_available_port(fp_start, fp_attempts) while fp_occupied stays fixed
CallFindAvailablePort ==
    /\ fp_pc = "call"
    /\ fp_result' = find_available_port(fp_start, fp_attempts, fp_occupied)
    /\ fp_pc' = IF fp_result'.exc = "none" THEN "returned" ELSE "raised"
    /\ UNCHANGED <<fp_start, fp_attempts, fp_occupied>>

(***************************************************************************)
(* Static File Responder                                                   *)
(***************************************************************************)
Line(kind, name, value) == [kind |-> kind, name |-> name, value |-> value]
Header(name, value) == Line("header", name, value)
BlankLine == Line("blank", "", "")
Body == Line("body", "", "")

\* a handler: the parsed request and the bytes buffered and written so far
NewHandler ==
    [request_version |-> "HTTP/0.9", command |-> "", buf |-> <<>>, wire |-> <<>>]

\* BaseHTTPRequestHandler.send_response_only
send_response_only(h, code) ==
    IF h.request_version # "HTTP/0.9"
    THEN [h EXCEPT !.buf = Append(@, Line("status", "HTTP/1.0", ToString(code)))]
    ELSE h

\* BaseHTTPRequestHandler.send_header
send_header(h, name, value) ==
    IF h.request_version # "HTTP/0.9"
    THEN [h EXCEPT !.buf = Append(@, Header(name, value))]
    ELSE h

\* BaseHTTPRequestHandler.send_response: status line, Server, Date
send_response(h, code) ==
    send_header(send_header(send_response_only(h, code),
                            "Server", "SimpleHTTP"), "Date", "now")

\* BaseHTTPRequestHandler.end_headers, reached through super()
super_end_headers(h) ==
    LET b == IF h.request_version # "HTTP/0.9"
             THEN Append(h.buf, BlankLine) ELSE h.buf
    IN [h EXCEPT !.wire = @ \o b, !.buf = <<>>]

\* mutant: super().end_headers() is called before the five send_header calls
end_headers_SuperFirst(h) ==
    LET h0 == super_end_headers(h)
        h1 == send_header(h0, "Access-Control-Allow-Origin", "*")
        h2 == send_header(h1, "Access-Control-Allow-Methods", "GET, POST, OPTIONS")
        h3 == send_header(h2, "Access-Control-Allow-Headers", "Content-Type")
        h4 == send_header(h3, "X-Content-Type-Options", "nosniff")
    IN send_header(h4, "X-Frame-Options", "DENY")

\* CustomHTTPRequestHandler.end_headers
end_headers(h) ==
    LET h1 == send_header(h, "Access-Control-Allow-Origin", "*")
        h2 == send_header(h1, "Access-Control-Allow-Methods", "GET, POST, OPTIONS")
        h3 == send_header(h2, "Access-Control-Allow-Headers", "Content-Type")
        h4 == send_header(h3, "X-Content-Type-Options", "nosniff")
        h5 == send_header(h4, "X-Frame-Options", "DENY")
    IN super_end_headers(h5)

\* wfile.write of a response body
write_body(h) == [h EXCEPT !.wire = Append(@, Body)]

\* BaseHTTPRequestHandler.send_error
send_error(h, code) ==
    LET h1 == send_response(h, code)
        h2 == send_header(h1, "Connection", "close")
        h3 == send_header(h2, "Content-Type", "text/html;charset=utf-8")
        h4 == send_header(h3, "Content-Length", "n")
        h5 == end_headers(h4)
    IN IF h.command # "HEAD" THEN write_body(h5) ELSE h5

\* SimpleHTTPRequestHandler.send_head followed by do_GET's or do_HEAD's copy
send_head(h, target) ==
    LET body(x) == IF h.command = "GET" THEN write_body(x) ELSE x IN
    CASE target = "missing" -> send_error(h, 404)
      [] target = "dir_noslash" ->
            end_headers(send_header(send_header(send_response(h, 301),
                "Location", "/d/"), "Content-Length", "0"))
      [] target = "dir_listing" ->
            body(end_headers(send_header(send_header(send_response(h, 200),
                "Content-type", "text/html; charset=utf-8"),
                "Content-Length", "n")))
      [] target = "not_modified" -> end_headers(send_response(h, 304))
      [] OTHER ->
            body(end_headers(send_header(send_header(send_header(
                send_response(h, 200), "Content-type", "text/html"),
                "Content-Length", "n"), "Last-Modified", "then")))

\* BaseHTTPRequestHandler.handle_one_request: parse_request, then the do_
\* method of the command, or 501 when the handler has none
handle_one_request(req) ==
    LET h0 == NewHandler IN
    IF req.version \notin {"", "HTTP/0.9", "HTTP/1.0", "HTTP/1.1", "HTTP/2.0"}
    THEN send_error(h0, 400)
    ELSE IF req.version = "HTTP/2.0" THEN send_error(h0, 505)
    ELSE LET h1 == IF req.version # ""
                   THEN [h0 EXCEPT !.request_version = req.version] ELSE h0
         IN IF req.version = "" /\ req.command # "GET"
            THEN send_error(h1, 400)
            ELSE LET h2 == [h1 EXCEPT !.command = req.command] IN
                 IF req.command \in {"GET", "HEAD"}
                 THEN send_head(h2, req.target)
                 ELSE send_error(h2, 501)

Commands == {"GET", "HEAD", "POST", "OPTIONS"}
Targets == {"file", "not_modified", "dir_noslash", "dir_listing", "missing"}
Versions == {"", "HTTP/0.9", "HTTP/1.0", "HTTP/1.1", "HTTP/2.0", "FOO"}
Requests == [command : Commands, target : Targets, version : Versions]

IdleHttp ==
    /\ http_pc = "idle"
    /\ http_request = <<>>
    /\ http_wire = <<>>

\* a request line arrives on a connection
ReceiveRequest ==
    /\ http_pc = "idle"
    /\ \E req \in Requests : http_request' = <<req>>
    /\ http_wire' = <<>>
    /\ http_pc' = "handling"

\* the handler answers it
HandleOneRequest ==
    /\ http_pc = "handling"
    /\ http_wire' = handle_one_request(http_request[1]).wire
    /\ http_pc' = "idle"
    /\ UNCHANGED http_request

Init == InitLife /\ IdleFp /\ IdleHttp

MainThread ==
    \/ Main
    \/ CheckFiles
    \/ InputEnter
    \/ FindPort
    \/ Chdir
    \/ BindOk
    \/ BindFails
    \/ StartThread
    \/ ExceptKeyboardInterrupt
    \/ ExceptException

Next ==
    \/ (Main /\ UNCHANGED <<fpVars, httpVars>>)
    \/ (CheckFiles /\ UNCHANGED <<fpVars, httpVars>>)
    \/ (InputEnter /\ UNCHANGED <<fpVars, httpVars>>)
    \/ (InputEOF /\ UNCHANGED <<fpVars, httpVars>>)
    \/ (FindPort /\ UNCHANGED <<fpVars, httpVars>>)
    \/ (Chdir /\ UNCHANGED <<fpVars, httpVars>>)
    \/ (BindOk /\ UNCHANGED <<fpVars, httpVars>>)
    \/ (BindFails /\ UNCHANGED <<fpVars, httpVars>>)
    \/ (StartThread /\ UNCHANGED <<fpVars, httpVars>>)
    \/ (ServeRaises /\ UNCHANGED <<fpVars, httpVars>>)
    \/ (InterruptUncaught /\ UNCHANGED <<fpVars, httpVars>>)
    \/ (InterruptCaught /\ UNCHANGED <<fpVars, httpVars>>)
    \/ (ExceptKeyboardInterrupt /\ UNCHANGED <<fpVars, httpVars>>)
    \/ (ExceptException /\ UNCHANGED <<fpVars, httpVars>>)
    \/ (OpenBrowser /\ UNCHANGED <<fpVars, httpVars>>)
    \/ (FileChange /\ UNCHANGED <<fpVars, httpVars>>)
    \/ (OtherProcessBinds /\ UNCHANGED <<fpVars, httpVars>>)

Spec == Init /\ [][Next]_vars

\* the main thread keeps running: each of its steps is eventually taken
FairSpec == Spec /\ WF_vars(MainThread /\ UNCHANGED <<fpVars, httpVars>>)

InitPort == IdleLife /\ InitFp /\ IdleHttp
NextPort == CallFindAvailablePort /\ UNCHANGED <<lifeVars, httpVars>>
SpecPort == InitPort /\ [][NextPort]_vars

InitHttp == IdleLife /\ IdleFp /\ IdleHttp
NextHttp ==
    \/ (ReceiveRequest /\ UNCHANGED <<lifeVars, fpVars>>)
    \/ (HandleOneRequest /\ UNCHANGED <<lifeVars, fpVars>>)
SpecHttp == InitHttp /\ [][NextHttp]_vars

(***************************************************************************)
(* Properties                                                              *)
(***************************************************************************)
Min(S) == CHOOSE x \in S : \A y \in S : x <= y

FpRange == fp_start .. (fp_start + fp_attempts - 1)
FpFree == FpRange \ fp_occupied

\* what C1 says of a finished call: it returned, first-fit, None iff full
FpFirstFit ==
    /\ fp_pc = "returned"
    /\ fp_result.exc = "none"
    /\ (FpFree # {} => fp_result.ret = <<Min(FpFree)>>)
    /\ (fp_result.ret = <<>> <=> FpFree = {})
    /\ (fp_result.ret # <<>> =>
            fp_result.ret[1] \in FpRange /\ fp_result.ret[1] \notin fp_occupied)

\* C1 as stated: for every starting port P and budget N >= 1 the call returns
\* the smallest free port of [P, P+N), None iff all of them are occupied, and
\* never an occupied port or one outside the range.
C1_Original == fp_pc # "call" => FpFirstFit

\* C1 amended: the same, for the calls whose range [P, P+N) lies within the
\* port numbers 0..65535.
C1_FirstFitInPortSpace ==
    (fp_pc # "call" /\ fp_start + fp_attempts - 1 <= MaxPortNumber)
        => FpFirstFit

\* C1 witness: a call that skipped an occupied port and returned the next one
C1_Witness ==
    /\ fp_pc = "returned"
    /\ fp_start \in fp_occupied
    /\ fp_result.ret = <<fp_start + 1>>

FixedHeaders ==
    << Header("Access-Control-Allow-Origin", "*"),
       Header("Access-Control-Allow-Methods", "GET, POST, OPTIONS"),
       Header("Access-Control-Allow-Headers", "Content-Type"),
       Header("X-Content-Type-Options", "nosniff"),
       Header("X-Frame-Options", "DENY") >>
FixedHeaderSet == {FixedHeaders[k] : k \in 1..5}

\* the response has a terminating blank line at i, the five fixed headers
\* right before it, and only a status line and other headers before those
CarriesFixedHeaders(wire) ==
    \E i \in 7..Len(wire) :
        /\ wire[i] = BlankLine
        /\ \A k \in 1..5 : wire[i - 6 + k] = FixedHeaders[k]
        /\ wire[1].kind = "status"
        /\ \A j \in 2..(i - 6) :
              wire[j].kind = "header" /\ wire[j] \notin FixedHeaderSet
        /\ \A j \in (i + 1)..Len(wire) : wire[j].kind = "body"

Responded == http_pc = "idle" /\ http_request # <<>>

\* C2 as stated: every response emitted, whatever the request path and
\* method, carries the five fixed headers after the library's own headers and
\* before the terminating blank line.
C2_Original == (Responded /\ http_wire # <<>>) => CarriesFixedHeaders(http_wire)

\* C2 amended: every response to a request whose request line names HTTP/1.0
\* or HTTP/1.1 carries the five fixed headers, after the library's own headers
\* and right before the terminating blank line, whatever the path and method.
C2_FixedHeadersOnHttp1 ==
    (Responded /\ http_request[1].version \in {"HTTP/1.0", "HTTP/1.1"})
        => CarriesFixedHeaders(http_wire)

\* C2 witness: a 404 answer, with its body, to an HTTP/1.1 GET of a missing file
C2_Witness ==
    /\ Responded
    /\ http_request[1] = [command |-> "GET", target |-> "missing",
                          version |-> "HTTP/1.1"]
    /\ http_wire[1] = Line("status", "HTTP/1.0", "404")
    /\ http_wire[Len(http_wire)] = Body

\* the URL path the stated priority selects for a set of existing files
PriorityPage(present) ==
    CASE MGMT \in present -> "/FMH-Management-Panel.html"
      [] MGMT \notin present /\ DIAG \in present -> "/FMH-Connection-Diagnostic.html"
      [] OTHER -> ""

\* C3: once the launcher has fired it has opened exactly one URL: the
\* management panel if that file exists in the script's directory, else the
\* diagnostic page if that exists, else the bare root, on the host and port
\* the listener is bound to.
C3_LauncherPriority ==
    launcher = "done" =>
        /\ Len(opened) = 1
        /\ cwd = ScriptDir
        /\ opened[1].page = PriorityPage(filesAtFire)
        /\ bound # <<>>
        /\ opened[1].base = bound[1]

\* C3 witness: both files exist, a port above the default is bound, the
\* management panel was opened
C3_Witness ==
    /\ launcher = "done"
    /\ filesAtFire = {MGMT, DIAG}
    /\ opened[1].page = "/FMH-Management-Panel.html"
    /\ opened[1].base.port = DEFAULT_PORT + 1

\* C4: an interrupt delivered while Serving leads to exit with status 0, the
\* socket has been closed by the time the process exits, and after the exit
\* no browser is opened: a launcher still in its delay is killed.
C4_InterruptWhileServing ==
    /\ [](interruptedAt \in Serving =>
            /\ ~socketOpen
            /\ (pc = "exited" => exitStatus = 0)
            /\ (launcher = "killed" => opened = <<>>))
    /\ [][pc = "exited" => opened' = opened /\ launcher' = launcher]_vars
    /\ ((interruptedAt \in Serving) ~> (pc = "exited" /\ exitStatus = 0))

\* C4 witness: interrupted while serving, exited with 0 while the launcher was
\* still in its delay
C4_Witness ==
    /\ interruptedAt = "serve_forever"
    /\ pc = "exited"
    /\ exitStatus = 0
    /\ launcher = "killed"
    /\ opened = <<>>

\* C5: the port search always hands over to the bind step (unless an
\* interrupt ends the run): with every port of 8080..8089 occupied it keeps
\* 8080, otherwise it takes the selector's result, and the bind is attempted
\* on that port.
C5_FallbackThenBind ==
    /\ [][(pc = "find_port" /\ pc' # pc /\ interruptedAt' = "") =>
            /\ pc' = "chdir"
            /\ PORT' = IF ProbeRange \subseteq occupied
                       THEN DEFAULT_PORT
                       ELSE Min(ProbeRange \ occupied)
            /\ (available_port' = <<>> <=> ProbeRange \subseteq occupied)]_vars
    /\ [][(pc = "chdir" /\ pc' # pc /\ interruptedAt' = "") =>
            pc' = "bind" /\ PORT' = PORT]_vars
    /\ [][(pc = "bind" /\ pc' = "start_thread") =>
            bound' = <<[host |-> HOST, port |-> PORT]>>]_vars
    /\ ((pc = "find_port") ~> (pc = "bind" \/ interruptedAt # ""))

\* C5 witness: all ten ports occupied, the bind step reached on 8080
C5_Witness ==
    /\ pc = "bind"
    /\ occupied = ProbeRange
    /\ available_port = <<>>
    /\ PORT = DEFAULT_PORT

\* C6: a failed bind, or an exception out of serving, ends the process with
\* status 1 through the error handler; after a failed bind the launcher was
\* never started and no browser opened, and the socket is closed before the
\* handler runs.
C6_FailureExitsOne ==
    /\ [][(pc = "bind" /\ TCPServerBind(PORT, occupied) # "ok" /\ pc' # pc) =>
            pc' \in {"except_Exception", "except_KeyboardInterrupt"}]_vars
    /\ [][(pc \in Serving /\ pc' \notin Serving /\ interruptedAt' = "") =>
            pc' = "except_Exception" /\ ~socketOpen']_vars
    /\ [][(pc = "except_Exception" /\ pc' # pc) =>
            pc' = "exited" /\ exitStatus' = 1]_vars
    /\ [](pc = "except_Exception" => ~socketOpen)
    /\ []((exitVia = "except_Exception") =>
            /\ exitStatus = 1
            /\ ~socketOpen
            /\ (bound = <<>> => launcher = "none" /\ opened = <<>>))

\* C6 witness: every port occupied, the bind failed, exit status 1
C6_Witness ==
    /\ pc = "exited"
    /\ exitVia = "except_Exception"
    /\ exitStatus = 1
    /\ bound = <<>>
    /\ occupied = ProbeRange

\* C7 as stated: an interrupt is a graceful stop with exit status 0 in
\* whichever state it arrives (the Init prompt, PortSearch, Bind, Serving).
C7_InterruptAlwaysGraceful ==
    (pc = "exited" /\ interruptedAt # "") =>
        exitStatus = 0 /\ exitVia = "except_KeyboardInterrupt"

\* C8: the browser is opened at most once, and only while the launcher
\* started after a successful bind is running.
C8_OpenOnceAfterBind ==
    /\ [](Len(opened) <= 1)
    /\ [](launcher # "none" => bound # <<>>)
    /\ [](opened # <<>> => bound # <<>> /\ launcher = "done")
    /\ [][opened' # opened =>
            opened = <<>> /\ bound # <<>> /\ launcher = "sleeping"]_vars

\* C8 witness: the browser was opened once, on the bound address
C8_Witness ==
    /\ Len(opened) = 1
    /\ bound # <<>>
    /\ pc = "serve_forever"

\* C9 as stated: the page opened is the one selected by the files that
\* existed when the launcher task was started.
C9_Original ==
    launcher = "done" => opened[1].page = PriorityPage(filesAtStart)

\* C9 amended: the page opened is selected by the files that exist in the
\* script's directory when the launcher fires, after its delay; only the
\* host and port of the URL are fixed before the task starts.
C9_CheckedAtFire ==
    [][(launcher = "sleeping" /\ launcher' = "done") =>
          opened' = <<[base |-> server_url[1],
                       page |-> PriorityPage(files[ScriptDir])]>>]_vars

\* C9 witness: a file changed during the delay and the page opened is not the
\* one the files at task start select
C9_Witness ==
    /\ launcher = "done"
    /\ filesAtFire # filesAtStart
    /\ opened[1].page # PriorityPage(filesAtStart)
    /\ opened[1].page = PriorityPage(filesAtFire)

FilesChecked ==
    /\ ~argv_help
    /\ pc \notin {"main", "check_files"}
    /\ interruptedAt # "check_files"

\* C10 as stated: check_files looks in the script's directory, so (with no
\* file change in between) the files it reports missing are exactly those
\* missing from the served directory, and it warns exactly when one is.
C10_CheckInScriptDir ==
    (FilesChecked /\ fileChanges = 0) =>
        /\ missing_files = FileNames \ files[ScriptDir]
        /\ warned = (files[ScriptDir] # FileNames)

====
